---- MODULE Spec2Model ----
(***************************************************************************)
(* Model of the rpfm Qt subclasses: the frozen-column table view (both the *)
(* qt_rpfm_extensions and the rpfm_ui implementation), the table and tree  *)
(* filter proxies, the 64-bit spin box and the close-event overrides.      *)
(***************************************************************************)
EXTENDS Integers, Sequences, FiniteSets, TLC

\* ------------------------------------------------------------------ bounds
NumColumns == 2
NumRows == 2
NumModels == 2
MaxConnections == 2
MaxValue == 2

Columns == 0 .. (NumColumns - 1)
Rows == 0 .. (NumRows - 1)
Models == 1 .. NumModels
Cells == Rows \X Columns
Widths == {1, 2}
NoModel == 0
Invalid == <<-1, -1>>
\* Stands for the index QTableView::moveCursor of the toolkit returns.
BaseIndex == <<-2, -2>>
Impls == {"ext", "ui"}
CursorActions == {"MoveLeft", "MoveRight", "MoveUp", "MoveDown"}

VARIABLES
    impl,            \* which library is linked: qt_rpfm_extensions or rpfm_ui
    viewModel,       \* the model set on the view (NoModel before setModel)
    frozenColumns,   \* QList<int> frozenColumns
    baseLeftMargin,  \* int baseLeftMargin = -1
    viewportLeft,    \* viewportMargins().left() of the main view
    frozenHidden,    \* columns hidden in tableViewFrozen
    frozenVHeader,   \* tableViewFrozen->verticalHeader() visible
    frozenGeom,      \* geometry of tableViewFrozen: [vheader |-> BOOLEAN, width |-> Nat]
    colWidth,        \* columnWidth(i) of the main view
    frozenColWidth,  \* column widths of tableViewFrozen
    rowHeight,       \* row heights of tableViewFrozen, set by updateSectionHeight
    lastOp,          \* the handler that completed last: <<name, argument>>
    prevToggle,      \* column of the toggleFreezer call before lastOp, or -1
    frozenBefore,    \* set of frozen columns before lastOp
    frozenBefore2,   \* set of frozen columns before the handler before lastOp
    tracking,        \* whether the four history variables above are kept
    mainOrder,       \* main horizontal header: visual position -> logical column
    frozenOrder,     \* frozen horizontal header: visual position -> logical column
    focus,           \* the pane that has keyboard focus: "main" or "frozen"
    curMain,         \* currentIndex() of the main view, <<row, column>> or Invalid
    curFrozen,       \* tableViewFrozen->currentIndex()
    returned,        \* what the last moveCursor returned
    selMain,         \* selected cells of selectionModel()
    selFrozen,       \* selected cells of tableViewFrozen->selectionModel()
    connN2F,         \* connections selectionChanged -> updateSelectionNormalToFrozen
    connF2N,         \* connections selectionChanged -> updateSelectionFrozenToNormal
    sigStack,        \* slot calls in progress, innermost first
    handlerCalls,    \* selection handlers entered since the last user event
    sbMain,          \* verticalScrollBar(): [value, max]
    sbFrozen,        \* tableViewFrozen->verticalScrollBar(): [value, max]
    slotStack,       \* setValue slot calls in progress, innermost first
    slotCalls        \* setValue slot calls made since the last user event

geomVars == <<impl, viewModel, frozenColumns, baseLeftMargin, viewportLeft,
              frozenHidden, frozenVHeader, frozenGeom, colWidth,
              frozenColWidth, rowHeight>>
histVars == <<lastOp, prevToggle, frozenBefore, frozenBefore2, tracking>>
cursorVars == <<mainOrder, frozenOrder, focus, curMain, curFrozen, returned>>
selVars == <<selMain, selFrozen, connN2F, connF2N, sigStack, handlerCalls>>
scrollVars == <<sbMain, sbFrozen, slotStack, slotCalls>>

frozenVars == <<geomVars, histVars, cursorVars, selVars, scrollVars>>

VARIABLES
    columns,                  \* QList<int> columns
    patterns,                 \* QStringList patterns
    nott,                     \* QList<int> nott
    regex,                    \* QList<int> regex
    case_sensitive,           \* QList<int> case_sensitive
    show_blank_cells,         \* QList<int> show_blank_cells
    match_groups_per_column,  \* QList<int> match_groups_per_column
    variant_to_search,        \* QList<int> variant_to_search
    show_edited_cells,        \* QList<int> show_edited_cells
    sourceRow,                \* the row of the source model: column -> item data
    accepted,                 \* <<result>> of the last filterAcceptsRow, <<>> before it
    proxy,                    \* the proxy that is asked: "ext", "ui" or "tree"
    lessed                    \* <<left, right, result>> of the last lessThan, <<>> before it

filterVars == <<columns, patterns, nott, regex, case_sensitive, show_blank_cells,
                match_groups_per_column, variant_to_search, show_edited_cells,
                sourceRow, accepted, proxy, lessed>>

VARIABLES
    treeParent,      \* source tree: node -> parent node, 0 for a top-level row
    treeText,        \* node -> text of column 0 (display role)
    treeExtra1,      \* node -> data(41) as a string
    treeExtra2,      \* node -> data(42) as a string
    filterRegExp,    \* the pattern set by trigger_treeview_filter
    treeRow,         \* the row filterAcceptsRow was last called for, 0 before
    treeAccepted     \* what that call returned

treeVars == <<treeParent, treeText, treeExtra1, treeExtra2, filterRegExp,
              treeRow, treeAccepted>>

VARIABLES
    m_value, m_minimum, m_maximum, m_singleStep, m_prefix, m_suffix,
    m_invalidValues,
    wrapping,        \* QAbstractSpinBox::wrapping()
    readOnly,        \* QAbstractSpinBox::isReadOnly()
    lineText,        \* lineEdit()->text()
    spinLast         \* the last call on the spin box and the value before it

spinVars == <<m_value, m_minimum, m_maximum, m_singleStep, m_prefix, m_suffix,
              m_invalidValues, wrapping, readOnly, lineText, spinLast>>

VARIABLES
    isOpen,          \* widget -> the window is shown
    eventAccepted,   \* widget -> <<isAccepted()>> of its last close event
    closeEvents,     \* widget -> close events delivered
    sureCalls,       \* widget -> calls of are_you_sure
    sureAnswer,      \* widget -> <<what are_you_sure returned last>>
    settingsSynced   \* QSettings geometry and windowState written and synced

closeVars == <<isOpen, eventAccepted, closeEvents, sureCalls, sureAnswer,
               settingsSynced>>

VARIABLES
    flagsIndex,      \* the index flags() is asked about: "valid" or "invalid"
    flagsItemType,   \* item->data(20).toInt() of the item at that index
    flagsBase,       \* QStandardItemModel::flags(index)
    flagsResult      \* <<what flags(index) returned>>, <<>> before the call

flagsVars == <<flagsIndex, flagsItemType, flagsBase, flagsResult>>

VARIABLES
    delegate,      \* <<library, class>> of the item delegate
    type,          \* QSpinBoxItemDelegate::type, the integer type
    editable,      \* QComboBoxItemDelegate::editable
    provided_values,        \* QComboBoxItemDelegate::values
    provided_lookups,       \* QComboBoxItemDelegate::lookups
    diag_timer,    \* whether diag_timer points to a timer (FALSE: nullptr)
    timerActive,   \* QTimer::isActive() of the diagnostics timer
    stopped,       \* whether the last createEditor called stop() on a timer
    editor,        \* the widget the last createEditor returned
    cellValue,          \* the QVariant of the edited cellValue of the table model
    lastCall       \* the delegate function that ran last

delegateVars == <<delegate, type, editable, provided_values, provided_lookups, diag_timer,
                  timerActive, stopped, editor, cellValue, lastCall>>

widgetVars == <<flagsVars, delegateVars>>

vars == <<frozenVars, filterVars, treeVars, spinVars, closeVars, widgetVars>>

outsideFrozen == <<filterVars, treeVars, spinVars, closeVars, widgetVars>>
outsideFilter == <<frozenVars, treeVars, spinVars, closeVars, widgetVars>>
outsideTree == <<frozenVars, filterVars, spinVars, closeVars, widgetVars>>
outsideSpin == <<frozenVars, filterVars, treeVars, closeVars, widgetVars>>
outsideClose == <<frozenVars, filterVars, treeVars, spinVars, widgetVars>>
outsideWidgets == <<frozenVars, filterVars, treeVars, spinVars, closeVars>>
outsideFlags == <<outsideWidgets, delegateVars>>
outsideDelegates == <<outsideWidgets, flagsVars>>

\* No slot is running: the event loop takes the next event.
Quiescent == sigStack = <<>> /\ slotStack = <<>>

\* The handler that just completed, for the properties that speak of it.
Record(name, arg) ==
    /\ tracking' = tracking
    /\ IF tracking
       THEN /\ lastOp' = <<name, arg>>
            /\ prevToggle' = IF lastOp[1] = "toggleFreezer" THEN lastOp[2] ELSE -1
            /\ frozenBefore' = {frozenColumns[i] : i \in 1 .. Len(frozenColumns)}
            /\ frozenBefore2' = frozenBefore
       ELSE UNCHANGED <<lastOp, prevToggle, frozenBefore, frozenBefore2>>

\* ------------------------------------------------------------ QList helpers
ToSet(list) == {list[i] : i \in 1 .. Len(list)}

Contains(list, x) == \E i \in 1 .. Len(list) : list[i] = x

IndexOf(list, x) == CHOOSE i \in 1 .. Len(list) :
                        list[i] = x /\ \A j \in 1 .. (i - 1) : list[j] # x

RemoveOne(list, x) ==
    IF ~Contains(list, x) THEN list
    ELSE LET k == IndexOf(list, x)
         IN  [i \in 1 .. (Len(list) - 1) |-> IF i < k THEN list[i] ELSE list[i + 1]]

RECURSIVE SumWidths(_, _)
SumWidths(S, w) ==
    IF S = {} THEN 0
    ELSE LET c == CHOOSE x \in S : TRUE
         IN  w[c] + SumWidths(S \ {c}, w)

\* --------------------------------------------------- header and model helpers
\* QHeaderView::visualIndex(logical): -1 for a column the header does not have.
visualIndex(order, logical) ==
    IF Contains(order, logical) THEN IndexOf(order, logical) - 1 ELSE -1

\* QHeaderView::moveSection(from, to) on the visual order.
MoveSection(order, from, to) ==
    LET moved == order[from + 1]
        without == [i \in 1 .. (Len(order) - 1) |->
                        IF i < from + 1 THEN order[i] ELSE order[i + 1]]
    IN  [i \in 1 .. Len(order) |->
            IF i < to + 1 THEN without[i]
            ELSE IF i = to + 1 THEN moved
            ELSE without[i - 1]]

\* model()->index(row, column): invalid outside the model.
ModelIndex(row, column) ==
    IF row \in Rows /\ column \in Columns THEN <<row, column>> ELSE Invalid

IdentityOrder == [i \in 1 .. NumColumns |-> i - 1]

\* --------------------------------------- qt_rpfm_extensions QTableViewFrozen
\* frozenColumns after toggleFreezer(column).
ToggledNoRemove(list, column) ==
    IF Contains(list, column) THEN list ELSE Append(list, column)

Toggled(list, column) ==
    IF Contains(list, column) THEN RemoveOne(list, column)
    ELSE Append(list, column)

\* setColumnHidden(i, !is_frozen) for every column i of the source model.
HiddenAfterGeometryInverted(list, hidden) ==
    (hidden \ Columns) \cup {i \in Columns : Contains(list, i)}

HiddenAfterGeometry(list, hidden) ==
    (hidden \ Columns) \cup {i \in Columns : ~Contains(list, i)}

\* Width summed over the frozen columns of the source model.
FrozenWidth(list, widths) == SumWidths({i \in Columns : Contains(list, i)}, widths)

\* updateFrozenTableGeometry(): hidden columns, viewport margin and geometry
\* of the frozen view, from the frozen list as it is when the call is made.
updateFrozenTableGeometry(list, blm) ==
    /\ frozenHidden' = HiddenAfterGeometry(list, frozenHidden)
    /\ viewportLeft' = IF blm # -1 THEN blm + FrozenWidth(list, colWidth')
                       ELSE viewportLeft
    /\ frozenGeom' = [vheader |-> list # <<>>,
                      width |-> FrozenWidth(list, colWidth')]

toggleFreezer(column) ==
    /\ impl = "ext"
    /\ Quiescent
    /\ viewModel # NoModel
    /\ LET blm == IF baseLeftMargin = -1 THEN viewportLeft ELSE baseLeftMargin
           list == Toggled(frozenColumns, column)
       IN  /\ baseLeftMargin' = blm
           /\ frozenColumns' = list
           /\ frozenVHeader' = (list # <<>>)
           /\ colWidth' = colWidth
           /\ updateFrozenTableGeometry(list, blm)
    /\ Record("toggleFreezer", column)
    /\ UNCHANGED <<impl, viewModel, frozenColWidth, rowHeight>>
    /\ UNCHANGED <<cursorVars, selVars, scrollVars>>
    /\ UNCHANGED outsideFrozen

\* setModel(model): both views take the model. A model that differs from the
\* current one gives each view a new selection model (no selection, no
\* current index); the same model leaves them in place. Either way the two
\* selectionChanged connections are made (again).
setModel(m) ==
    /\ impl = "ext"
    /\ Quiescent
    /\ viewModel' = m
    /\ IF m # viewModel
       THEN /\ curMain' = Invalid
            /\ curFrozen' = Invalid
            /\ selMain' = {}
            /\ selFrozen' = {}
            /\ connN2F' = 1
            /\ connF2N' = 1
       ELSE /\ connN2F < MaxConnections
            /\ connN2F' = connN2F + 1
            /\ connF2N' = connF2N + 1
            /\ UNCHANGED <<curMain, curFrozen, selMain, selFrozen>>
    /\ colWidth' = colWidth
    /\ updateFrozenTableGeometry(frozenColumns, baseLeftMargin)
    /\ Record("setModel", m)
    /\ UNCHANGED <<impl, frozenColumns, baseLeftMargin, frozenVHeader,
                   frozenColWidth, rowHeight>>
    /\ UNCHANGED <<mainOrder, frozenOrder, focus, returned, sigStack,
                   handlerCalls, scrollVars>>
    /\ UNCHANGED outsideFrozen

\* The main header emits sectionResized(logicalIndex, oldSize, newSize).
updateSectionWidth(logicalIndex, newSize) ==
    /\ impl = "ext"
    /\ Quiescent
    /\ viewModel # NoModel
    /\ colWidth[logicalIndex] # newSize
    /\ colWidth' = [colWidth EXCEPT ![logicalIndex] = newSize]
    /\ frozenColWidth' = [frozenColWidth EXCEPT ![logicalIndex] = newSize]
    /\ updateFrozenTableGeometry(frozenColumns, baseLeftMargin)
    /\ Record("updateSectionWidth", logicalIndex)
    /\ UNCHANGED <<impl, viewModel, frozenColumns, baseLeftMargin,
                   frozenVHeader, rowHeight>>
    /\ UNCHANGED <<cursorVars, selVars, scrollVars>>
    /\ UNCHANGED outsideFrozen

\* The main vertical header emits sectionResized(logicalIndex, oldSize, newSize).
updateSectionHeight(logicalIndex, newSize) ==
    /\ impl = "ext"
    /\ Quiescent
    /\ viewModel # NoModel
    /\ rowHeight[logicalIndex] # newSize
    /\ rowHeight' = [rowHeight EXCEPT ![logicalIndex] = newSize]
    /\ Record("updateSectionHeight", logicalIndex)
    /\ UNCHANGED <<impl, viewModel, frozenColumns, baseLeftMargin, viewportLeft,
                   frozenHidden, frozenVHeader, frozenGeom, colWidth,
                   frozenColWidth>>
    /\ UNCHANGED <<cursorVars, selVars, scrollVars>>
    /\ UNCHANGED outsideFrozen

resizeEvent ==
    /\ impl = "ext"
    /\ Quiescent
    /\ viewModel # NoModel
    /\ colWidth' = colWidth
    /\ updateFrozenTableGeometry(frozenColumns, baseLeftMargin)
    /\ Record("resizeEvent", -1)
    /\ UNCHANGED <<impl, viewModel, frozenColumns, baseLeftMargin,
                   frozenVHeader, frozenColWidth, rowHeight>>
    /\ UNCHANGED <<cursorVars, selVars, scrollVars>>
    /\ UNCHANGED outsideFrozen

\* The main header emits sectionMoved(logical, oldVisualIndex, newVisualIndex)
\* after moving its own section; the frozen header repeats the move.
sectionMoved(oldVisualIndex, newVisualIndex) ==
    /\ impl = "ext"
    /\ Quiescent
    /\ viewModel # NoModel
    /\ oldVisualIndex # newVisualIndex
    /\ mainOrder' = MoveSection(mainOrder, oldVisualIndex, newVisualIndex)
    /\ frozenOrder' = MoveSection(frozenOrder, oldVisualIndex, newVisualIndex)
    /\ Record("sectionMoved", oldVisualIndex)
    /\ UNCHANGED <<geomVars, focus, curMain, curFrozen, returned, selVars,
                   scrollVars>>
    /\ UNCHANGED outsideFrozen

\* ------------------------------------------------- QTableViewFrozen::moveCursor
NoColumn == 9999

\* for (i < frozenColumns.count()): the greatest visual index among the
\* frozen columns and the column that has it, from (-1, -1).
RECURSIVE LatestFrozenFrom(_, _, _, _)
LatestFrozenFrom(list, order, i, acc) ==
    IF i > Len(list) THEN acc
    ELSE LET vis == visualIndex(order, list[i])
         IN  LatestFrozenFrom(list, order, i + 1,
                 IF vis > acc.column
                 THEN [column |-> vis, columnLogic |-> list[i]]
                 ELSE acc)

LatestFrozen(list, order) ==
    LatestFrozenFrom(list, order, 1, [column |-> -1, columnLogic |-> -1])

\* for (i < horizontalHeader()->count()): the logical column with the least
\* visual index, from (9999, 9999).
RECURSIVE FirstVisualFrom(_, _, _)
FirstVisualFrom(order, i, acc) ==
    IF i >= Len(order) THEN acc
    ELSE LET vis == visualIndex(order, i)
         IN  FirstVisualFrom(order, i + 1,
                 IF vis < acc.column
                 THEN [column |-> vis, columnLogic |-> i]
                 ELSE acc)

FirstVisual(order) ==
    FirstVisualFrom(order, 0, [column |-> NoColumn, columnLogic |-> NoColumn])

\* The column of an index: -1 for the invalid index.
ColumnOf(index) == index[2]
RowOf(index) == index[1]

\* Does moveCursor take the branch that leaves the frozen pane?
LeavesFrozen(cursorAction) ==
    /\ focus = "frozen"
    /\ cursorAction = "MoveRight"
    /\ visualIndex(frozenOrder, ColumnOf(curFrozen))
           = LatestFrozen(frozenColumns, frozenOrder).column

\* Does moveCursor take the branch that enters the frozen pane?
EntersFrozen(cursorAction) ==
    /\ focus # "frozen"
    /\ cursorAction = "MoveLeft"
    /\ frozenColumns # <<>>
    /\ visualIndex(mainOrder, ColumnOf(curMain)) = 0

moveCursor(cursorAction) ==
    /\ impl = "ext"
    /\ Quiescent
    /\ viewModel # NoModel
    /\ IF LeavesFrozen(cursorAction)
       THEN LET current == ModelIndex(RowOf(curFrozen),
                                      FirstVisual(mainOrder).columnLogic)
            IN  /\ focus' = "main"
                /\ curMain' = current
                /\ returned' = current
                /\ UNCHANGED curFrozen
       ELSE IF EntersFrozen(cursorAction)
       THEN LET current == ModelIndex(RowOf(curMain),
                               LatestFrozen(frozenColumns, frozenOrder).columnLogic)
            IN  /\ focus' = "frozen"
                /\ curFrozen' = current
                /\ returned' = current
                /\ UNCHANGED curMain
       ELSE /\ returned' = BaseIndex
            /\ UNCHANGED <<focus, curMain, curFrozen>>
    /\ Record("moveCursor", cursorAction)
    /\ UNCHANGED <<geomVars, mainOrder, frozenOrder, selVars, scrollVars>>
    /\ UNCHANGED outsideFrozen

\* The current index of a view changes: a click, a key handled by the
\* toolkit, or setCurrentIndex from the host.
currentChanged(view, index) ==
    /\ impl = "ext"
    /\ Quiescent
    /\ viewModel # NoModel
    /\ IF view = "main"
       THEN curMain # index /\ curMain' = index /\ UNCHANGED curFrozen
       ELSE curFrozen # index /\ curFrozen' = index /\ UNCHANGED curMain
    /\ Record("currentChanged", view)
    /\ UNCHANGED <<geomVars, mainOrder, frozenOrder, focus, returned, selVars,
                   scrollVars>>
    /\ UNCHANGED outsideFrozen

\* The user clicks into the main view: it takes the focus. The frozen view
\* has Qt::NoFocus and gets the focus from moveCursor only.
focusInMain ==
    /\ impl = "ext"
    /\ Quiescent
    /\ focus = "frozen"
    /\ focus' = "main"
    /\ Record("focusIn", -1)
    /\ UNCHANGED <<geomVars, mainOrder, frozenOrder, curMain, curFrozen,
                   returned, selVars, scrollVars>>
    /\ UNCHANGED outsideFrozen

\* --------------------------------------------- QTableViewFrozen selection sync
SelectionCommands == {"Select", "Deselect", "Toggle", "ClearAndSelect", "Clear"}

\* QItemSelectionModel::select(index, command) on a set of selected cells.
ApplyCommand(selection, index, command) ==
    CASE command = "Select" -> selection \cup {index}
      [] command = "Deselect" -> selection \ {index}
      [] command = "Toggle" -> IF index \in selection THEN selection \ {index}
                                ELSE selection \cup {index}
      [] command = "ClearAndSelect" -> {index}
      [] OTHER -> {}

\* QItemSelection::indexes(): the cells of a selection, row by row.
CellRank(cell) == cell[1] * NumColumns + cell[2]

RECURSIVE Indexes(_)
Indexes(S) ==
    IF S = {} THEN <<>>
    ELSE LET first == CHOOSE c \in S : \A d \in S : CellRank(c) <= CellRank(d)
         IN  <<first>> \o Indexes(S \ {first})

\* The slot calls a selectionChanged(selected, deselected) signal makes: one
\* per connection, and none when nothing changed.
SlotCalls(handler, connections, old, new) ==
    IF old = new THEN <<>>
    ELSE [i \in 1 .. connections |->
             [handler |-> handler,
              selected |-> Indexes(new \ old),
              deselected |-> Indexes(old \ new)]]

\* The command a handler passes to the opposite selection model for an index
\* of its selected list and for one of its deselected list.
HandlerCommandSelectOnly(list) == "Select"

HandlerCommand(list) == IF list = "selected" THEN "Select" ELSE "Deselect"

\* The selection of a view changes by a user or host command.
selectEvent(view, index, command) ==
    /\ impl = "ext"
    /\ Quiescent
    /\ viewModel # NoModel
    /\ LET old == IF view = "main" THEN selMain ELSE selFrozen
           new == ApplyCommand(old, index, command)
           calls == IF view = "main"
                    THEN SlotCalls("NormalToFrozen", connN2F, old, new)
                    ELSE SlotCalls("FrozenToNormal", connF2N, old, new)
       IN  /\ old # new
           /\ IF view = "main"
              THEN selMain' = new /\ UNCHANGED selFrozen
              ELSE selFrozen' = new /\ UNCHANGED selMain
           /\ sigStack' = calls
           /\ handlerCalls' = Len(calls)
    /\ Record("selectionChanged", view)
    /\ UNCHANGED <<geomVars, cursorVars, connN2F, connF2N, scrollVars>>
    /\ UNCHANGED outsideFrozen

\* One step of the innermost updateSelectionNormalToFrozen call: the next
\* select() on the frozen selection model, or the return.
updateSelectionNormalToFrozen ==
    /\ sigStack # <<>>
    /\ Head(sigStack).handler = "NormalToFrozen"
    /\ LET call == Head(sigStack)
           list == IF call.selected # <<>> THEN "selected" ELSE "deselected"
       IN  IF call.selected = <<>> /\ call.deselected = <<>>
           THEN /\ sigStack' = Tail(sigStack)
                /\ UNCHANGED <<selFrozen, handlerCalls>>
           ELSE LET index == Head(call[list])
                    rest == [call EXCEPT ![list] = Tail(call[list])]
                    new == ApplyCommand(selFrozen, index, HandlerCommand(list))
                    calls == SlotCalls("FrozenToNormal", connF2N, selFrozen, new)
                IN  /\ selFrozen' = new
                    /\ sigStack' = calls \o <<rest>> \o Tail(sigStack)
                    /\ handlerCalls' = handlerCalls + Len(calls)
    /\ UNCHANGED <<geomVars, histVars, cursorVars, selMain, connN2F, connF2N,
                   scrollVars>>
    /\ UNCHANGED outsideFrozen

\* One step of the innermost updateSelectionFrozenToNormal call.
updateSelectionFrozenToNormal ==
    /\ sigStack # <<>>
    /\ Head(sigStack).handler = "FrozenToNormal"
    /\ LET call == Head(sigStack)
           list == IF call.selected # <<>> THEN "selected" ELSE "deselected"
       IN  IF call.selected = <<>> /\ call.deselected = <<>>
           THEN /\ sigStack' = Tail(sigStack)
                /\ UNCHANGED <<selMain, handlerCalls>>
           ELSE LET index == Head(call[list])
                    rest == [call EXCEPT ![list] = Tail(call[list])]
                    new == ApplyCommand(selMain, index, HandlerCommand(list))
                    calls == SlotCalls("NormalToFrozen", connN2F, selMain, new)
                IN  /\ selMain' = new
                    /\ sigStack' = calls \o <<rest>> \o Tail(sigStack)
                    /\ handlerCalls' = handlerCalls + Len(calls)
    /\ UNCHANGED <<geomVars, histVars, cursorVars, selFrozen, connN2F, connF2N,
                   scrollVars>>
    /\ UNCHANGED outsideFrozen

\* ------------------------------------------------ QTableViewFrozen scroll sync
Values == 0 .. MaxValue

\* QAbstractSlider::setValue(value) bounds the value to the range.
Bound(bar, value) ==
    IF value < 0 THEN 0 ELSE IF value > bar.max THEN bar.max ELSE value

\* The scrollbars whose setValue slot is connected to valueChanged of `source`.
ConnectedOneWay(source) == IF source = "frozen" THEN {"main"} ELSE {}

Connected(source) == IF source = "frozen" THEN {"main"} ELSE {"frozen"}

\* The slot calls valueChanged(value) of `source` makes.
ValueChanged(source, value) ==
    IF Connected(source) = {} THEN <<>>
    ELSE <<[target |-> CHOOSE t \in Connected(source) : TRUE, value |-> value]>>

\* The user moves a scrollbar (slider, wheel or key) to another value.
scrollEvent(source, value) ==
    /\ impl = "ext"
    /\ Quiescent
    /\ LET bar == IF source = "main" THEN sbMain ELSE sbFrozen
       IN  /\ value <= bar.max
           /\ value # bar.value
           /\ IF source = "main"
              THEN sbMain' = [bar EXCEPT !.value = value] /\ UNCHANGED sbFrozen
              ELSE sbFrozen' = [bar EXCEPT !.value = value] /\ UNCHANGED sbMain
           /\ slotStack' = ValueChanged(source, value)
           /\ slotCalls' = Len(ValueChanged(source, value))
    /\ Record("valueChanged", source)
    /\ UNCHANGED <<geomVars, cursorVars, selVars>>
    /\ UNCHANGED outsideFrozen

\* A view lays out again and sets the range of its scrollbar, which bounds
\* the value to the new range.
rangeChanged(source, max) ==
    /\ impl = "ext"
    /\ Quiescent
    /\ LET bar == IF source = "main" THEN sbMain ELSE sbFrozen
           value == Bound([bar EXCEPT !.max = max], bar.value)
           calls == IF value = bar.value THEN <<>> ELSE ValueChanged(source, value)
       IN  /\ max # bar.max
           /\ IF source = "main"
              THEN sbMain' = [value |-> value, max |-> max] /\ UNCHANGED sbFrozen
              ELSE sbFrozen' = [value |-> value, max |-> max] /\ UNCHANGED sbMain
           /\ slotStack' = calls
           /\ slotCalls' = Len(calls)
    /\ Record("rangeChanged", source)
    /\ UNCHANGED <<geomVars, cursorVars, selVars>>
    /\ UNCHANGED outsideFrozen

\* The innermost pending QAbstractSlider::setValue slot call runs.
setValue ==
    /\ slotStack # <<>>
    /\ LET call == Head(slotStack)
           bar == IF call.target = "main" THEN sbMain ELSE sbFrozen
           value == Bound(bar, call.value)
           calls == IF value = bar.value THEN <<>>
                    ELSE ValueChanged(call.target, value)
       IN  /\ IF call.target = "main"
              THEN sbMain' = [bar EXCEPT !.value = value] /\ UNCHANGED sbFrozen
              ELSE sbFrozen' = [bar EXCEPT !.value = value] /\ UNCHANGED sbMain
           /\ slotStack' = calls \o Tail(slotStack)
           /\ slotCalls' = slotCalls + Len(calls)
    /\ UNCHANGED <<geomVars, histVars, cursorVars, selVars>>
    /\ UNCHANGED outsideFrozen

\* ---------------------------------------------------- rpfm_ui QTableViewFrozen
\* setColumnHidden(column, hide) on the frozen view: a header without that
\* section ignores it.
SetColumnHidden(hidden, m, column, hide) ==
    IF m = NoModel \/ column \notin Columns THEN hidden
    ELSE IF hide THEN hidden \cup {column} ELSE hidden \ {column}

toggleFreezerUi(column) ==
    /\ impl = "ui"
    /\ frozenColumns' = Toggled(frozenColumns, column)
    /\ frozenHidden' = SetColumnHidden(frozenHidden, viewModel, column,
                                       Contains(frozenColumns, column))
    /\ Record("toggleFreezer", column)
    /\ UNCHANGED <<impl, viewModel, baseLeftMargin, viewportLeft, frozenVHeader,
                   frozenGeom, colWidth, frozenColWidth, rowHeight>>
    /\ UNCHANGED <<cursorVars, selVars, scrollVars>>
    /\ UNCHANGED outsideFrozen

\* init(): the frozen view takes the model and the selection model of the
\* main view, hides its vertical header and hides every column.
init ==
    /\ frozenVHeader' = FALSE
    /\ frozenHidden' = Columns

setDataModel(m) ==
    /\ impl = "ui"
    /\ viewModel' = m
    /\ init
    /\ Record("setDataModel", m)
    /\ UNCHANGED <<impl, frozenColumns, baseLeftMargin, viewportLeft, frozenGeom,
                   colWidth, frozenColWidth, rowHeight>>
    /\ UNCHANGED <<cursorVars, selVars, scrollVars>>
    /\ UNCHANGED outsideFrozen

\* ------------------------------ qt_rpfm_extensions QTableViewSortFilterProxyModel
MaxFilters == 2

\* Strings are sequences of one-character strings.
ToLowerChar(ch) == IF ch = "A" THEN "a" ELSE IF ch = "B" THEN "b" ELSE ch

ToLower(str) == [i \in 1 .. Len(str) |-> ToLowerChar(str[i])]

\* QString::contains(pattern, caseSensitivity); 1 is Qt::CaseSensitive.
StrContains(text, pattern, caseSensitivity) ==
    LET t == IF caseSensitivity = 1 THEN text ELSE ToLower(text)
        q == IF caseSensitivity = 1 THEN pattern ELSE ToLower(pattern)
    IN  \E start \in 0 .. (Len(t) - Len(q)) :
            \A j \in 1 .. Len(q) : t[start + j] = q[j]

\* QRegularExpression(pattern).isValid(), for the patterns of the model:
\* letters and digits, and "(" which is never closed.
RegexIsValid(pattern) == \A i \in 1 .. Len(pattern) : pattern[i] # "("

\* "^((?!" + pattern + ").)*$"
Negated(pattern) ==
    <<"^", "(", "(", "?", "!">> \o pattern \o <<")", ".", ")", "*", "$">>

IsNegated(pattern) ==
    /\ Len(pattern) >= 10
    /\ SubSeq(pattern, 1, 5) = <<"^", "(", "(", "?", "!">>
    /\ SubSeq(pattern, Len(pattern) - 4, Len(pattern)) = <<")", ".", ")", "*", "$">>

Inner(pattern) == SubSeq(pattern, 6, Len(pattern) - 5)

\* regex.isValid() and regex.match(text).hasMatch() for a literal pattern
\* and for the negation built around one.
RegexValid(pattern) ==
    IF IsNegated(pattern) THEN RegexIsValid(Inner(pattern))
    ELSE RegexIsValid(pattern)

RegexHasMatch(pattern, text, caseInsensitive) ==
    LET cs == IF caseInsensitive THEN 0 ELSE 1
    IN  IF IsNegated(pattern) THEN ~StrContains(text, Inner(pattern), cs)
        ELSE StrContains(text, pattern, cs)

\* The roles searched for variant_to_search.
Variants(variant) ==
    IF variant = 0 THEN <<2>> ELSE IF variant = 1 THEN <<40>> ELSE <<2, 40>>

\* currntData->data(role).toString() for the roles 2 and 40.
DataString(cell, role) == IF role = 2 THEN cell.text ELSE cell.text40

\* isModifiedFromVanilla: data(24), false when null.
IsModifiedFromVanilla(cell) == cell.modified = "true"

IsEmptyMatchNever(pattern) == FALSE

\* "Ignore empty matches": pattern.isEmpty()
IsEmptyMatch(pattern) == pattern = <<>>

ShowEditedBypassNever(show_edited, cell) == FALSE

\* "If the variant is modified and we want to show modified cells, we let it
\* pass the filters."
ShowEditedBypass(show_edited, cell) == show_edited /\ IsModifiedFromVanilla(cell)

\* The checkbox, blank-cell and text branches of the loop body for match
\* index `match` (from 0): FALSE when they set is_group_valid = false.
EvaluatedNormally(match, row) ==
    LET pattern == patterns[match + 1]
        cell == row[columns[match + 1]]
        use_regex == regex[match + 1] = 1
        use_nott == nott[match + 1] = 1
        case_sensitivity == case_sensitive[match + 1]
        show_blank == show_blank_cells[match + 1] = 1
        variants == Variants(variant_to_search[match + 1])
    IN  IF cell.check # "none"
        THEN LET pattern_lower == ToLower(pattern)
                 checked == cell.check = "checked"
                 isChecked == IF use_nott THEN ~checked ELSE checked
             IN  ~ \/ (pattern_lower \in {<<"t", "r", "u", "e">>, <<"1">>} /\ ~isChecked)
                   \/ (pattern_lower \in {<<"f", "a", "l", "s", "e">>, <<"0">>} /\ isChecked)
        ELSE IF show_blank /\ DataString(cell, 2) = <<>> THEN TRUE
        ELSE IF use_regex
        THEN LET pattern2 == IF use_nott THEN Negated(pattern) ELSE pattern
             IN  IF RegexValid(pattern2)
                 THEN \A f \in 1 .. Len(variants) :
                          RegexHasMatch(pattern2, DataString(cell, variants[f]),
                                        case_sensitivity = 0)
                 ELSE TRUE
        ELSE IF use_nott
        THEN \A f \in 1 .. Len(variants) :
                 ~StrContains(DataString(cell, variants[f]), pattern, case_sensitivity)
        ELSE \A f \in 1 .. Len(variants) :
                 StrContains(DataString(cell, variants[f]), pattern, case_sensitivity)

\* The body of the loop over the matches of a group, for match index
\* `match` (from 0): FALSE when it sets is_group_valid = false.
MatchPasses(match, row) ==
    IF IsEmptyMatch(patterns[match + 1]) THEN TRUE
    ELSE IF ShowEditedBypass(show_edited_cells[match + 1] = 1,
                             row[columns[match + 1]]) THEN TRUE
    ELSE EvaluatedNormally(match, row)

ItemFromIndexReplaces(row, column) ==
    [row EXCEPT ![column] = [item |-> TRUE, text |-> <<>>, text40 |-> <<>>,
                             modified |-> "null", check |-> "none",
                             checkable |-> FALSE]]

\* QStandardItemModel::itemFromIndex(index) on a valid index: a cell without
\* an item gets an empty one; the data of the cell stays as it was.
ItemFromIndex(row, column) == [row EXCEPT ![column].item = TRUE]

\* "Initialize the groups": the loop over match_groups_per_column that fills
\* matches_per_group, a map from group to the list of its match indices.
RECURSIVE MatchesPerGroupFrom(_, _)
MatchesPerGroupFrom(i, map) ==
    IF i >= Len(match_groups_per_column) THEN map
    ELSE LET group == match_groups_per_column[i + 1]
         IN  MatchesPerGroupFrom(i + 1,
                 IF group \in DOMAIN map
                 THEN [map EXCEPT ![group] = <<i>>]
                 ELSE map @@ (group :> <<i>>))

MatchesPerGroup == MatchesPerGroupFrom(0, <<>>)

\* The loop over the matches of one group from its k-th match on: whether
\* is_group_valid stays true, and the row with the items the loop created.
RECURSIVE GroupLoop(_, _, _)
GroupLoop(group, k, row) ==
    IF k > Len(group) THEN [valid |-> TRUE, row |-> row]
    ELSE IF IsEmptyMatch(patterns[group[k] + 1]) THEN GroupLoop(group, k + 1, row)
    ELSE LET touched == ItemFromIndex(row, columns[group[k] + 1])
         IN  IF MatchPasses(group[k], touched) THEN GroupLoop(group, k + 1, touched)
             ELSE [valid |-> FALSE, row |-> touched]

\* is_group_valid after the loop over the matches of one group.
IsGroupValid(group, row) == GroupLoop(group, 1, row).valid

\* The loop over the groups of matches_per_group, in key order, that returns
\* at the first valid group.
RECURSIVE GroupsLoop(_, _, _)
GroupsLoop(map, keys, row) ==
    IF keys = {} THEN [valid |-> FALSE, row |-> row]
    ELSE LET g == CHOOSE x \in keys : \A y \in keys : x <= y
             r == GroupLoop(map[g], 1, row)
         IN  IF r.valid THEN r ELSE GroupsLoop(map, keys \ {g}, r.row)

\* filterAcceptsRow(source_row, source_parent) on a row of the source model:
\* the verdict and the row as the call leaves it.
FilterAcceptsRowCall(row) ==
    IF patterns = <<>> THEN [valid |-> TRUE, row |-> row]
    ELSE GroupsLoop(MatchesPerGroup, DOMAIN MatchesPerGroup, row)

FilterAcceptsRow(row) == FilterAcceptsRowCall(row).valid

\* The lists trigger_tableview_filter stores in the proxy.
filterLists == <<columns, patterns, nott, regex, case_sensitive, show_blank_cells,
                 match_groups_per_column, variant_to_search, show_edited_cells>>

filterAcceptsRow ==
    /\ proxy = "ext"
    /\ accepted' = <<FilterAcceptsRow(sourceRow)>>
    /\ sourceRow' = FilterAcceptsRowCall(sourceRow).row
    /\ UNCHANGED <<filterLists, proxy, lessed>>
    /\ UNCHANGED outsideFilter

\* checkState(): data(Qt::CheckStateRole) as a Qt::CheckState, Unchecked
\* when the role holds nothing.
CheckState(cell) == IF cell.check = "checked" THEN "checked" ELSE "unchecked"

\* The order of the characters of the model's strings.
CharRank(ch) == IF ch = "a" THEN 1 ELSE IF ch = "b" THEN 2 ELSE 0

\* QString::compare(l, r, Qt::CaseSensitive) < 0
RECURSIVE StrLess(_, _)
StrLess(l, r) ==
    IF r = <<>> THEN FALSE
    ELSE IF l = <<>> THEN TRUE
    ELSE IF CharRank(Head(l)) # CharRank(Head(r))
    THEN CharRank(Head(l)) < CharRank(Head(r))
    ELSE StrLess(Tail(l), Tail(r))

\* QSortFilterProxyModel::lessThan on the display role: a cell without text
\* holds a null variant, which is not less than anything, and anything else
\* is less than it.
BaseLessThan(l, r) ==
    IF l.text = <<>> THEN FALSE
    ELSE IF r.text = <<>> THEN TRUE
    ELSE StrLess(l.text, r.text)

\* The comparison of two check states that both lessThan use.
CheckStateLess(l, r) ==
    IF CheckState(l) = CheckState(r) THEN FALSE
    ELSE IF CheckState(l) = "checked" /\ CheckState(r) = "unchecked" THEN FALSE
    ELSE TRUE

\* lessThan(left, right) of the qt_rpfm_extensions proxy, on the cells of the
\* two indexes after itemFromIndex.
LessThan(l, r) ==
    IF l.check # "none" /\ r.check # "none" THEN CheckStateLess(l, r)
    ELSE BaseLessThan(l, r)

lessThan(left, right) ==
    /\ proxy = "ext"
    /\ sourceRow' = ItemFromIndex(ItemFromIndex(sourceRow, left), right)
    /\ lessed' = <<left, right, LessThan(sourceRow'[left], sourceRow'[right])>>
    /\ UNCHANGED <<filterLists, proxy, accepted>>
    /\ UNCHANGED outsideFilter

\* The parameter records trigger_tableview_filter is called with.
FilterColumns == {0, 1}

FilterKinds == {
    [pattern |-> <<"a">>, nott |-> 0, regex |-> 0, case_sensitive |-> 1,
     show_blank_cells |-> 0, variant_to_search |-> 0, show_edited_cells |-> 0],
    [pattern |-> <<"A">>, nott |-> 1, regex |-> 0, case_sensitive |-> 0,
     show_blank_cells |-> 0, variant_to_search |-> 2, show_edited_cells |-> 0],
    [pattern |-> <<"a">>, nott |-> 0, regex |-> 1, case_sensitive |-> 1,
     show_blank_cells |-> 1, variant_to_search |-> 1, show_edited_cells |-> 0],
    [pattern |-> <<"(">>, nott |-> 1, regex |-> 1, case_sensitive |-> 0,
     show_blank_cells |-> 0, variant_to_search |-> 0, show_edited_cells |-> 0],
    [pattern |-> <<>>, nott |-> 1, regex |-> 0, case_sensitive |-> 1,
     show_blank_cells |-> 0, variant_to_search |-> 0, show_edited_cells |-> 0],
    [pattern |-> <<"1">>, nott |-> 0, regex |-> 0, case_sensitive |-> 1,
     show_blank_cells |-> 0, variant_to_search |-> 0, show_edited_cells |-> 1],
    [pattern |-> <<"B">>, nott |-> 1, regex |-> 1, case_sensitive |-> 0,
     show_blank_cells |-> 0, variant_to_search |-> 2, show_edited_cells |-> 1]}

FilterGroups == {0, 1}

\* A cell of the source model: whether a QStandardItem exists for it, its
\* text (role 2), role 40, role 24, its check state (Qt::CheckStateRole, "none"
\* when the role holds nothing) and whether the item is user-checkable.
Cell(text, text40, modified, check) ==
    [item |-> TRUE, text |-> text, text40 |-> text40, modified |-> modified,
     check |-> check, checkable |-> check # "none"]

\* A cell no item was ever set for: every role is null.
NoItemCell ==
    [item |-> FALSE, text |-> <<>>, text40 |-> <<>>, modified |-> "null",
     check |-> "none", checkable |-> FALSE]

CellValues == {
    Cell(<<>>, <<"a">>, "null", "none"),
    Cell(<<"a">>, <<"a">>, "null", "none"),
    Cell(<<"a">>, <<"b">>, "false", "none"),
    Cell(<<"b">>, <<"b">>, "null", "none"),
    Cell(<<"b">>, <<"b">>, "true", "none"),
    Cell(<<>>, <<>>, "null", "checked"),
    Cell(<<>>, <<>>, "null", "unchecked"),
    Cell(<<>>, <<>>, "true", "unchecked"),
    [Cell(<<"a">>, <<"a">>, "null", "checked") EXCEPT !.checkable = FALSE],
    NoItemCell}

\* trigger_tableview_filter(...): the nine lists, one entry per filter.
trigger_tableview_filter(n, column, group, kind) ==
    /\ columns = [i \in 1 .. n |-> column[i]]
    /\ patterns = [i \in 1 .. n |-> kind[i].pattern]
    /\ nott = [i \in 1 .. n |-> kind[i].nott]
    /\ regex = [i \in 1 .. n |-> kind[i].regex]
    /\ case_sensitive = [i \in 1 .. n |-> kind[i].case_sensitive]
    /\ show_blank_cells = [i \in 1 .. n |-> kind[i].show_blank_cells]
    /\ match_groups_per_column = [i \in 1 .. n |-> group[i]]
    /\ variant_to_search = [i \in 1 .. n |-> kind[i].variant_to_search]
    /\ show_edited_cells = [i \in 1 .. n |-> kind[i].show_edited_cells]

InitFilter ==
    /\ \E n \in 0 .. MaxFilters :
           \E column \in [1 .. n -> FilterColumns], group \in [1 .. n -> FilterGroups],
              kind \in [1 .. n -> FilterKinds] :
               trigger_tableview_filter(n, column, group, kind)
    /\ sourceRow \in [FilterColumns -> CellValues]
    /\ accepted = <<>>
    /\ proxy = "ext"
    /\ lessed = <<>>

\* A table proxy nothing was asked of, over a model of empty cells.
UnusedFilter ==
    /\ trigger_tableview_filter(0, <<>>, <<>>, <<>>)
    /\ sourceRow = [c \in FilterColumns |-> NoItemCell]
    /\ accepted = <<>>
    /\ lessed = <<>>

IdleFilter == UnusedFilter /\ proxy = "ext"

\* ---------------------------------- rpfm_ui QTableViewSortFilterProxyModel
\* The body of the loop of filterAcceptsRow for entry i (from 0), on the row
\* after itemFromIndex: FALSE when it sets is_valid = false.
EntryPassesUi(i, row) ==
    LET pattern == patterns[i + 1]
        cell == row[columns[i + 1]]
        case_sensitivity == case_sensitive[i + 1]
        show_blank_cells_in_column == show_blank_cells[i + 1] = 1
    IN  IF cell.checkable
        THEN LET pattern_lower == ToLower(pattern)
                 isChecked == CheckState(cell) = "checked"
             IN  ~ \/ (pattern_lower \in {<<"t", "r", "u", "e">>, <<"1">>} /\ ~isChecked)
                   \/ (pattern_lower \in {<<"f", "a", "l", "s", "e">>, <<"0">>} /\ isChecked)
        ELSE IF show_blank_cells_in_column /\ DataString(cell, 2) = <<>> THEN TRUE
        ELSE IF RegexValid(pattern)
        THEN RegexHasMatch(pattern, DataString(cell, 2), case_sensitivity = 0)
        ELSE StrContains(DataString(cell, 2), pattern, 1)

\* for (int i = 0; i < columns.count(); ++i), from entry i on, with its break.
RECURSIVE EntryLoopUi(_, _)
EntryLoopUi(i, row) ==
    IF i >= Len(columns) THEN [valid |-> TRUE, row |-> row]
    ELSE LET touched == ItemFromIndex(row, columns[i + 1])
         IN  IF EntryPassesUi(i, touched) THEN EntryLoopUi(i + 1, touched)
             ELSE [valid |-> FALSE, row |-> touched]

FilterAcceptsRowUi(row) == EntryLoopUi(0, row).valid

filterAcceptsRowUi ==
    /\ proxy = "ui"
    /\ accepted' = <<FilterAcceptsRowUi(sourceRow)>>
    /\ sourceRow' = EntryLoopUi(0, sourceRow).row
    /\ UNCHANGED <<filterLists, proxy, lessed>>
    /\ UNCHANGED outsideFilter

LessThanUi(l, r) ==
    IF l.checkable /\ r.checkable THEN CheckStateLess(l, r)
    ELSE BaseLessThan(l, r)

lessThanUi(left, right) ==
    /\ proxy = "ui"
    /\ sourceRow' = ItemFromIndex(ItemFromIndex(sourceRow, left), right)
    /\ lessed' = <<left, right, LessThanUi(sourceRow'[left], sourceRow'[right])>>
    /\ UNCHANGED <<filterLists, proxy, accepted>>
    /\ UNCHANGED outsideFilter

\* trigger_tableview_filter(filter, columns, patterns, case_sensitive,
\* show_blank_cells): the four lists, one entry per filter; the class has no
\* other list but match_groups_per_column, which nothing fills.
trigger_tableview_filter_ui(n, column, kind) ==
    /\ columns = [i \in 1 .. n |-> column[i]]
    /\ patterns = [i \in 1 .. n |-> kind[i].pattern]
    /\ case_sensitive = [i \in 1 .. n |-> kind[i].case_sensitive]
    /\ show_blank_cells = [i \in 1 .. n |-> kind[i].show_blank_cells]
    /\ match_groups_per_column = <<>>
    /\ nott = <<>> /\ regex = <<>> /\ variant_to_search = <<>>
    /\ show_edited_cells = <<>>

InitFilterUi ==
    /\ \E n \in 0 .. MaxFilters :
           \E column \in [1 .. n -> FilterColumns], kind \in [1 .. n -> FilterKinds] :
               trigger_tableview_filter_ui(n, column, kind)
    /\ sourceRow \in [FilterColumns -> CellValues]
    /\ accepted = <<>>
    /\ proxy = "ui"
    /\ lessed = <<>>

\* ------------------------------------------ rpfm_ui QTreeViewSortFilterProxyModel
NumNodes == 3

\* Rows of the source model are the nodes 1 .. NumNodes; 0 is the invalid
\* index, the parent of the top-level rows.
Nodes == 1 .. NumNodes

InvalidIndex == 0

\* The children of a row, in row order.
RECURSIVE ChildrenFrom(_, _)
ChildrenFrom(n, m) ==
    IF m > NumNodes THEN <<>>
    ELSE IF treeParent[m] = n THEN <<m>> \o ChildrenFrom(n, m + 1)
    ELSE ChildrenFrom(n, m + 1)

ChildrenOf(n) == ChildrenFrom(n, 1)

\* QSortFilterProxyModel::filterAcceptsRow: true for an empty expression and
\* for a row whose index is not valid, else the text contains the expression.
BaseAccepts(n) ==
    \/ filterRegExp = <<>>
    \/ n = InvalidIndex
    \/ StrContains(treeText[n], filterRegExp, 1)

\* The two extraData checks on currntIndex (roles 41 and 42).
ExtraDataMatches(n) ==
    \/ treeExtra1[n] # <<>> /\ StrContains(treeExtra1[n], filterRegExp, 1)
    \/ treeExtra2[n] # <<>> /\ StrContains(treeExtra2[n], filterRegExp, 1)

RECURSIVE TreeAcceptsRow(_)
RECURSIVE ChildLoop(_, _, _, _)

ChildAcceptedBaseOnly(child) == BaseAccepts(child)

\* "Keep the parent if a children is shown": filterAcceptsRow(i, currntIndex).
ChildAccepted(child) == TreeAcceptsRow(child)

\* for (int i = 0; i < rowCount(currntIndex) && !result; ++i)
ChildLoop(n, kids, i, result) ==
    IF i > Len(kids) \/ result THEN result
    ELSE ChildLoop(n, kids, i + 1,
                   result \/ ExtraDataMatches(n) \/ ChildAccepted(kids[i]))

ParentMatchesOwnRow(n) == BaseAccepts(n)

\* The base filter on source_parent's own row (granpa, granpa_row).
ParentMatches(n) == BaseAccepts(treeParent[n])

\* QTreeViewSortFilterProxyModel::filterAcceptsRow for row n.
TreeAcceptsRow(n) ==
    LET result == BaseAccepts(n)
        kids == ChildrenOf(n)
    IN  IF kids # <<>> THEN ChildLoop(n, kids, 1, result)
        ELSE IF ~result THEN ParentMatches(n) \/ ExtraDataMatches(n)
        ELSE result

treeFilterAcceptsRow(n) ==
    /\ treeRow' = n
    /\ treeAccepted' = <<TreeAcceptsRow(n)>>
    /\ UNCHANGED <<treeParent, treeText, treeExtra1, treeExtra2, filterRegExp>>
    /\ UNCHANGED outsideTree

TreeTexts == {<<"a">>, <<"c">>}

TreeExtras1 == {<<>>, <<"a">>}

TreeExtras2 == {<<>>, <<"b">>}

TreePatterns == {<<>>, <<"a">>, <<"b">>}

InitTree ==
    /\ treeParent \in {f \in [Nodes -> 0 .. NumNodes] : \A n \in Nodes : f[n] < n}
    /\ treeText \in [Nodes -> TreeTexts]
    /\ treeExtra1 \in [Nodes -> TreeExtras1]
    /\ treeExtra2 \in [Nodes -> TreeExtras2]
    /\ filterRegExp \in TreePatterns
    /\ treeRow = InvalidIndex
    /\ treeAccepted = <<>>

IdleTree ==
    /\ treeParent = [n \in Nodes |-> 0]
    /\ treeText = [n \in Nodes |-> <<"a">>]
    /\ treeExtra1 = [n \in Nodes |-> <<>>]
    /\ treeExtra2 = [n \in Nodes |-> <<>>]
    /\ filterRegExp = <<>>
    /\ treeRow = InvalidIndex
    /\ treeAccepted = <<>>

\* ------------------------------------------ qt_rpfm_extensions QtLongLongSpinBox
\* qlonglong, at a width small enough to enumerate.
IntBits == 3

MinInt == -(2 ^ (IntBits - 1))

MaxInt == 2 ^ (IntBits - 1) - 1

Ints == MinInt .. MaxInt

DigitChars == <<"0", "1", "2", "3", "4", "5", "6", "7", "8", "9">>

IsDigit(ch) == \E d \in 1 .. 10 : DigitChars[d] = ch

DigitValue(ch) == (CHOOSE d \in 1 .. 10 : DigitChars[d] = ch) - 1

RECURSIVE NatString(_)
NatString(n) ==
    IF n < 10 THEN <<DigitChars[n + 1]>>
    ELSE NatString(n \div 10) \o <<DigitChars[(n % 10) + 1]>>

\* QString::number(value)
Number(value) == IF value < 0 THEN <<"-">> \o NatString(-value) ELSE NatString(value)

RECURSIVE NatValue(_)
NatValue(str) ==
    IF str = <<>> THEN 0
    ELSE NatValue(SubSeq(str, 1, Len(str) - 1)) * 10 + DigitValue(str[Len(str)])

\* QString::toLongLong(&ok): an optional sign and digits, in range.
toLongLong(str) ==
    LET signed == str # <<>> /\ str[1] \in {"-", "+"}
        digits == IF signed THEN SubSeq(str, 2, Len(str)) ELSE str
        wellFormed == digits # <<>> /\ \A i \in 1 .. Len(digits) : IsDigit(digits[i])
        value == IF ~wellFormed THEN 0
                 ELSE IF signed /\ str[1] = "-" THEN -NatValue(digits)
                 ELSE NatValue(digits)
    IN  IF wellFormed /\ value \in Ints THEN [ok |-> TRUE, value |-> value]
        ELSE [ok |-> FALSE, value |-> 0]

startsWith(str, prefix) ==
    Len(prefix) <= Len(str) /\ SubSeq(str, 1, Len(prefix)) = prefix

endsWith(str, suffix) ==
    Len(suffix) <= Len(str) /\ SubSeq(str, Len(str) - Len(suffix) + 1, Len(str)) = suffix

\* QString::mid(start, length): to the end when length is negative or too long.
mid(str, start, length) ==
    IF start > Len(str) THEN <<>>
    ELSE IF length < 0 \/ start + length > Len(str) THEN SubSeq(str, start + 1, Len(str))
    ELSE SubSeq(str, start + 1, start + length)

qBound(min, value, max) ==
    LET low == IF max < value THEN max ELSE value
    IN  IF low < min THEN min ELSE low

\* validate(input, pos): the state returned and input as it is left.
validate(input) ==
    LET first == toLongLong(input)
        valid == /\ ~(m_prefix # <<>> /\ ~startsWith(input, m_prefix))
                 /\ ~(m_suffix # <<>> /\ ~endsWith(input, m_suffix))
        start == Len(m_prefix)
        length == Len(input) - start - Len(m_suffix)
        number == mid(input, start, length)
        second == toLongLong(number)
    IN  IF first.ok /\ first.value \in m_invalidValues
        THEN [state |-> "Invalid", input |-> input]
        ELSE IF input = <<>> \/ (first.ok /\ first.value <= m_maximum)
        THEN [state |-> "Acceptable", input |-> m_prefix \o input \o m_suffix]
        ELSE IF valid /\ (number = <<>> \/ (second.ok /\ second.value <= m_maximum))
        THEN [state |-> "Acceptable", input |-> input]
        ELSE [state |-> "Invalid", input |-> input]

\* The value lineEditEditingFinalize passes to setValue.
FinalizedValue ==
    LET text == lineText
        first == toLongLong(text)
        valid == IF m_prefix # <<>> /\ ~startsWith(text, m_prefix) THEN FALSE
                 ELSE IF m_suffix # <<>> /\ ~endsWith(text, m_suffix) THEN FALSE
                 ELSE TRUE
        start == Len(m_prefix)
        length == Len(text) - start - Len(m_suffix)
        second == toLongLong(mid(text, start, length))
    IN  IF first.ok THEN first.value
        ELSE IF valid /\ second.ok THEN second.value
        ELSE m_value

NotAStep == [op |-> "other", before |-> 0, delta |-> 0, overflow |-> FALSE]

\* setValue(expectedNewValue) with the range, prefix and suffix in force.
SetValue(expectedNewValue, minimum, maximum, prefix, suffix) ==
    LET newValue == qBound(minimum, expectedNewValue, maximum)
    IN  /\ lineText' = prefix \o Number(newValue) \o suffix
        /\ m_value' = newValue

set_value_q_spinbox_i64(value) ==
    /\ SetValue(value, m_minimum, m_maximum, m_prefix, m_suffix)
    /\ spinLast' = NotAStep
    /\ UNCHANGED <<m_minimum, m_maximum, m_singleStep, m_prefix, m_suffix,
                   m_invalidValues, wrapping, readOnly>>
    /\ UNCHANGED outsideSpin

setMinimum(min) ==
    /\ m_minimum' = min
    /\ m_maximum' = IF m_maximum < min THEN min ELSE m_maximum
    /\ SetValue(m_value, m_minimum', m_maximum', m_prefix, m_suffix)
    /\ spinLast' = NotAStep
    /\ UNCHANGED <<m_singleStep, m_prefix, m_suffix, m_invalidValues, wrapping, readOnly>>
    /\ UNCHANGED outsideSpin

setMaximum(max) ==
    /\ m_maximum' = IF max < m_minimum THEN m_minimum ELSE max
    /\ SetValue(m_value, m_minimum, m_maximum', m_prefix, m_suffix)
    /\ spinLast' = NotAStep
    /\ UNCHANGED <<m_minimum, m_singleStep, m_prefix, m_suffix, m_invalidValues,
                   wrapping, readOnly>>
    /\ UNCHANGED outsideSpin

setSingleStep(step) ==
    /\ m_singleStep' = step
    /\ spinLast' = NotAStep
    /\ UNCHANGED <<m_value, m_minimum, m_maximum, m_prefix, m_suffix,
                   m_invalidValues, wrapping, readOnly, lineText>>
    /\ UNCHANGED outsideSpin

setPrefix(prefix) ==
    /\ m_prefix' = prefix
    /\ SetValue(m_value, m_minimum, m_maximum, prefix, m_suffix)
    /\ spinLast' = NotAStep
    /\ UNCHANGED <<m_minimum, m_maximum, m_singleStep, m_suffix, m_invalidValues,
                   wrapping, readOnly>>
    /\ UNCHANGED outsideSpin

setSuffix(suffix) ==
    /\ m_suffix' = suffix
    /\ SetValue(m_value, m_minimum, m_maximum, m_prefix, suffix)
    /\ spinLast' = NotAStep
    /\ UNCHANGED <<m_minimum, m_maximum, m_singleStep, m_prefix, m_invalidValues,
                   wrapping, readOnly>>
    /\ UNCHANGED outsideSpin

setInvalidValues(values) ==
    /\ m_invalidValues' = values
    /\ spinLast' = NotAStep
    /\ UNCHANGED <<m_value, m_minimum, m_maximum, m_singleStep, m_prefix, m_suffix,
                   wrapping, readOnly, lineText>>
    /\ UNCHANGED outsideSpin

\* QAbstractSpinBox::setWrapping and setReadOnly, called by the host.
setWrapping(w) ==
    /\ wrapping' = w
    /\ spinLast' = NotAStep
    /\ UNCHANGED <<m_value, m_minimum, m_maximum, m_singleStep, m_prefix, m_suffix,
                   m_invalidValues, readOnly, lineText>>
    /\ UNCHANGED outsideSpin

setReadOnly(r) ==
    /\ readOnly' = r
    /\ spinLast' = NotAStep
    /\ UNCHANGED <<m_value, m_minimum, m_maximum, m_singleStep, m_prefix, m_suffix,
                   m_invalidValues, wrapping, lineText>>
    /\ UNCHANGED outsideSpin

\* The user types: the line edit keeps what validate does not call Invalid,
\* as validate leaves it.
textEdited(input) ==
    /\ ~readOnly
    /\ validate(input).state # "Invalid"
    /\ lineText' = validate(input).input
    /\ spinLast' = NotAStep
    /\ UNCHANGED <<m_value, m_minimum, m_maximum, m_singleStep, m_prefix, m_suffix,
                   m_invalidValues, wrapping, readOnly>>
    /\ UNCHANGED outsideSpin

\* focusOutEvent: lineEditEditingFinalize().
focusOutEvent ==
    /\ SetValue(FinalizedValue, m_minimum, m_maximum, m_prefix, m_suffix)
    /\ spinLast' = NotAStep
    /\ UNCHANGED <<m_minimum, m_maximum, m_singleStep, m_prefix, m_suffix,
                   m_invalidValues, wrapping, readOnly>>
    /\ UNCHANGED outsideSpin

\* The value stepBy passes to setValue, from the value before the step and
\* the sum newValue, once validate has let the sum through.
SteppedValue(value, newValue) ==
    IF wrapping
    THEN IF newValue > m_maximum
         THEN IF value = m_maximum THEN m_minimum ELSE m_maximum
         ELSE IF newValue < m_minimum
         THEN IF value = m_minimum THEN m_maximum ELSE m_minimum
         ELSE newValue
    ELSE qBound(m_minimum, newValue, m_maximum)

\* The sums m_value + steps * m_singleStep the build can produce: the exact
\* one, or any value when the signed arithmetic overflows.
Sums(value, steps) ==
    IF steps * m_singleStep \in Ints /\ value + steps * m_singleStep \in Ints
    THEN {value + steps * m_singleStep}
    ELSE Ints

stepBy(steps) ==
    /\ IF readOnly
       THEN /\ spinLast' = NotAStep
            /\ UNCHANGED <<m_value, lineText>>
       ELSE LET stale == m_prefix \o Number(m_value) \o m_suffix # lineText
                value == IF stale THEN qBound(m_minimum, FinalizedValue, m_maximum)
                         ELSE m_value
                text == IF stale THEN m_prefix \o Number(value) \o m_suffix
                        ELSE lineText
            IN  \E newValue \in Sums(value, steps) :
                    /\ IF validate(Number(newValue)).state = "Invalid"
                       THEN m_value' = value /\ lineText' = text
                       ELSE SetValue(SteppedValue(value, newValue),
                                     m_minimum, m_maximum, m_prefix, m_suffix)
                    /\ spinLast' = [op |-> "stepBy", before |-> value,
                                    delta |-> steps * m_singleStep,
                                    overflow |-> Sums(value, steps) # {newValue}]
    /\ UNCHANGED <<m_minimum, m_maximum, m_singleStep, m_prefix, m_suffix,
                   m_invalidValues, wrapping, readOnly>>
    /\ UNCHANGED outsideSpin

SpinValues == Ints

SingleSteps == {1, 2}

Steps == {-1, 1}

Prefixes == {<<>>, <<"$">>}

Suffixes == {<<>>, <<"2">>}

InvalidValueLists == {{}, {1}}

UserTexts == {<<>>, <<"1">>, <<"-", "2">>, <<"$", "3">>}

InitSpin ==
    /\ m_minimum = MinInt
    /\ m_maximum = MaxInt
    /\ m_value = 0
    /\ m_singleStep = 1
    /\ m_prefix = <<>>
    /\ m_suffix = <<>>
    /\ m_invalidValues = {}
    /\ wrapping = FALSE
    /\ readOnly = FALSE
    /\ lineText = Number(0)
    /\ spinLast = NotAStep

\* --------------------------------------------- QDialogCustom, QMainWindowCustom
MaxCloseEvents == 3

Widgets == {"dialog", "main"}

\* A QCloseEvent is delivered accepted.
NewCloseEvent == [accepted |-> TRUE]

ignoreNothing(event) == event

\* event->ignore()
ignore(event) == [event EXCEPT !.accepted = FALSE]

\* event->accept()
accept(event) == [event EXCEPT !.accepted = TRUE]

\* The event at the end of closeEvent, are_you_sure having returned `answer`.
AfterCloseEvent(answer) ==
    LET event == ignore(NewCloseEvent)
    IN  IF answer THEN accept(event) ELSE event

\* closeEvent(event) of the widget, are_you_sure returning `answer`.
closeEvent(widget, answer) ==
    /\ isOpen[widget]
    /\ closeEvents[widget] < MaxCloseEvents
    /\ closeEvents' = [closeEvents EXCEPT ![widget] = @ + 1]
    /\ settingsSynced' = (settingsSynced \/ widget = "main")
    /\ sureCalls' = [sureCalls EXCEPT ![widget] = @ + 1]
    /\ sureAnswer' = [sureAnswer EXCEPT ![widget] = <<answer>>]
    /\ eventAccepted' = [eventAccepted EXCEPT ![widget] = <<AfterCloseEvent(answer).accepted>>]
    /\ isOpen' = [isOpen EXCEPT ![widget] = ~AfterCloseEvent(answer).accepted]
    /\ UNCHANGED outsideClose

\* The host shows the window again.
show(widget) ==
    /\ ~isOpen[widget]
    /\ isOpen' = [isOpen EXCEPT ![widget] = TRUE]
    /\ UNCHANGED <<eventAccepted, closeEvents, sureCalls, sureAnswer, settingsSynced>>
    /\ UNCHANGED outsideClose

InitClose ==
    /\ isOpen = [w \in Widgets |-> TRUE]
    /\ eventAccepted = [w \in Widgets |-> <<>>]
    /\ closeEvents = [w \in Widgets |-> 0]
    /\ sureCalls = [w \in Widgets |-> 0]
    /\ sureAnswer = [w \in Widgets |-> <<>>]
    /\ settingsSynced = FALSE

\* ------------------------------------------------------ rpfm_ui PackedFileModel
ItemFlags == {"ItemIsSelectable", "ItemIsEditable", "ItemIsDragEnabled",
              "ItemIsDropEnabled", "ItemIsEnabled"}

\* The types stored under role 20: 1 file, 2 folder, 3 PackFile, others.
ItemTypes == 0 .. 4

DefaultFlagsKept(base) == base

\* defaultFlags after the two &~ lines.
DefaultFlags(base) == base \ {"ItemIsDragEnabled", "ItemIsDropEnabled"}

\* PackedFileModel::flags(index)
PackedFileFlags(index, item_type, base) ==
    LET defaultFlags == DefaultFlags(base)
    IN  IF index = "valid"
        THEN IF item_type = 1 THEN {"ItemIsDragEnabled"} \cup defaultFlags
             ELSE IF item_type = 2
             THEN {"ItemIsDragEnabled", "ItemIsDropEnabled"} \cup defaultFlags
             ELSE IF item_type = 3 THEN {"ItemIsDropEnabled"} \cup defaultFlags
             ELSE defaultFlags
        ELSE defaultFlags

flags ==
    /\ flagsResult' = <<PackedFileFlags(flagsIndex, flagsItemType, flagsBase)>>
    /\ UNCHANGED <<flagsIndex, flagsItemType, flagsBase>>
    /\ UNCHANGED outsideFlags

InitFlags ==
    /\ flagsIndex \in {"valid", "invalid"}
    /\ flagsItemType \in ItemTypes
    /\ flagsBase \in SUBSET ItemFlags
    /\ flagsResult = <<>>

IdleFlags ==
    /\ flagsIndex = "invalid"
    /\ flagsItemType = 0
    /\ flagsBase = {}
    /\ flagsResult = <<>>

\* ------------------------------------------------------ table item delegates
MaxInserted == 1

\* The delegate classes of the two libraries that create editors.
SpinBoxDelegate == <<"rpfm_ui", "QSpinBoxItemDelegate">>

ComboDelegates == {<<"rpfm_ui", "QComboBoxItemDelegate">>,
                   <<"qt_rpfm_extensions", "QComboBoxItemDelegate">>}

TimedDelegates ==
    {SpinBoxDelegate,
     <<"rpfm_ui", "QDoubleSpinBoxItemDelegate">>,
     <<"rpfm_ui", "QExtendedStyledItemDelegate">>,
     <<"rpfm_ui", "QStringItemDelegate">>,
     <<"qt_rpfm_extensions", "QColourPickerItemDelegate">>,
     <<"qt_rpfm_extensions", "QDoubleSpinBoxItemDelegate">>,
     <<"qt_rpfm_extensions", "QStringItemDelegate">>,
     <<"qt_rpfm_extensions", "QtLongLongSpinBoxItemDelegate">>} \cup ComboDelegates

\* UnitVariantItemDelegate(QObject *parent) takes no timer and has none.
UntimedDelegates == {<<"qt_rpfm_extensions", "UnitVariantItemDelegate">>}

Delegates == TimedDelegates \cup UntimedDelegates

\* The widget createEditor has not returned yet.
NoEditor ==
    [kind |-> "none", text |-> <<>>, value |-> 0, items |-> <<>>, index |-> -1]

\* QVariant(QString) and QVariant(qlonglong) as cellValue provided_values.
StringVariant(str) == [isString |-> TRUE, str |-> str, num |-> 0]

LongLongVariant(num) == [isString |-> FALSE, str |-> <<>>, num |-> num]

\* QVariant::toString()
toString(variant) == IF variant.isString THEN variant.str ELSE Number(variant.num)

\* The width of the delegate's integer type, with 64 bits scaled to IntBits.
TypeBits(integer_type) ==
    IF integer_type = 64 THEN IntBits
    ELSE IF integer_type = 32 THEN IntBits - 1
    ELSE IntBits - 2

\* spinBox->setRange(...) of createEditor for the types 32 and 16.
RangeMinimum(integer_type) == -(2 ^ (TypeBits(integer_type) - 1))

RangeMaximum(integer_type) == 2 ^ (TypeBits(integer_type) - 1) - 1

\* QVariant::toInt(): the value cut to the width of int.
toInt(variant) ==
    LET width == 2 ^ TypeBits(32)
        num == IF variant.isString THEN toLongLong(variant.str).value ELSE variant.num
    IN  ((num - RangeMinimum(32)) % width) + RangeMinimum(32)

StopSkipped(class) == FALSE

\* Whether createEditor of the class has the statement
\* "if (diag_timer) { diag_timer->stop(); }".
StopsTimer(class) == class \in TimedDelegates

\* The widget each createEditor builds.
NewEditor(class) ==
    IF class = SpinBoxDelegate
    THEN IF type = 64 THEN [NoEditor EXCEPT !.kind = "QLineEdit"]
         ELSE [NoEditor EXCEPT !.kind = "QSpinBox",
                               !.value = qBound(RangeMinimum(type), 0, RangeMaximum(type))]
    ELSE IF class \in ComboDelegates
    THEN [NoEditor EXCEPT !.kind = "QComboBox", !.items = provided_values,
                          !.index = IF provided_values = <<>> THEN -1 ELSE 0,
                          !.text = IF provided_values = <<>> THEN <<>> ELSE provided_values[1]]
    ELSE IF class[2] = "QStringItemDelegate" THEN [NoEditor EXCEPT !.kind = "QLineEdit"]
    ELSE IF class[2] = "QDoubleSpinBoxItemDelegate"
    THEN [NoEditor EXCEPT !.kind = "QDoubleSpinBox"]
    ELSE IF class[2] = "QColourPickerItemDelegate"
    THEN [NoEditor EXCEPT !.kind = "QColorDialog"]
    ELSE IF class[2] = "QExtendedStyledItemDelegate"
    THEN [NoEditor EXCEPT !.kind = "QStyledItemDelegate::createEditor"]
    ELSE [NoEditor EXCEPT !.kind = "QtLongLongSpinBox"]

delegateConfig == <<delegate, type, editable, provided_values, provided_lookups, diag_timer>>

createEditor ==
    /\ IF diag_timer /\ StopsTimer(delegate)
       THEN timerActive' = FALSE /\ stopped' = TRUE
       ELSE timerActive' = timerActive /\ stopped' = FALSE
    /\ editor' = NewEditor(delegate)
    /\ lastCall' = "createEditor"
    /\ UNCHANGED <<delegateConfig, cellValue>>
    /\ UNCHANGED outsideDelegates

FindTextAnyCase(items, text) ==
    IF \E i \in 1 .. Len(items) : ToLower(items[i]) = ToLower(text)
    THEN (CHOOSE i \in 1 .. Len(items) :
              /\ ToLower(items[i]) = ToLower(text)
              /\ \A j \in 1 .. (i - 1) : ToLower(items[j]) # ToLower(text)) - 1
    ELSE -1

\* comboBox->findText(value): the first entry with exactly that text, or -1.
FindText(items, text) == IF Contains(items, text) THEN IndexOf(items, text) - 1 ELSE -1

\* QComboBoxItemDelegate::setEditorData of both libraries.
ComboEditorData(combo, value) ==
    LET pos == FindText(combo.items, value)
    IN  IF pos # -1
        THEN [combo EXCEPT !.index = pos, !.text = combo.items[pos + 1]]
        ELSE [combo EXCEPT !.items = <<value>> \o combo.items, !.index = 0,
                           !.text = value]

setEditorData ==
    /\ \/ /\ delegate = SpinBoxDelegate /\ editor.kind = "QLineEdit"
          /\ editor' = [editor EXCEPT !.text = toString(cellValue)]
       \/ /\ delegate = SpinBoxDelegate /\ editor.kind = "QSpinBox"
          /\ editor' = [editor EXCEPT
                 !.value = qBound(RangeMinimum(type), toInt(cellValue), RangeMaximum(type))]
       \/ /\ delegate \in ComboDelegates /\ editor.kind = "QComboBox"
          /\ FindText(editor.items, toString(cellValue)) = -1 =>
                 Len(editor.items) < Len(provided_values) + MaxInserted
          /\ editor' = ComboEditorData(editor, toString(cellValue))
    /\ lastCall' = "setEditorData"
    /\ UNCHANGED <<delegateConfig, timerActive, stopped, cellValue>>
    /\ UNCHANGED outsideDelegates

WritesAlways(ok) == TRUE

\* "if (ok) { model->setData(index, value, Qt::EditRole); }"
WritesWhenOk(ok) == ok

\* The cellValue after QSpinBoxItemDelegate::setModelData.
SpinBoxModelData(widget, variant) ==
    IF type = 64
    THEN LET parsed == toLongLong(widget.text)
         IN  IF WritesWhenOk(parsed.ok) THEN LongLongVariant(parsed.value) ELSE variant
    ELSE LongLongVariant(widget.value)

\* comboBox->currentText(): the text of the line edit of an editable combo,
\* else the text of the current entry.
CurrentText(combo) ==
    IF editable THEN combo.text
    ELSE IF combo.index # -1 THEN combo.items[combo.index + 1]
    ELSE <<>>

setModelData ==
    /\ \/ /\ delegate = SpinBoxDelegate /\ editor.kind \in {"QLineEdit", "QSpinBox"}
          /\ cellValue' = SpinBoxModelData(editor, cellValue)
       \/ /\ delegate \in ComboDelegates /\ editor.kind = "QComboBox"
          /\ cellValue' = StringVariant(CurrentText(editor))
    /\ lastCall' = "setModelData"
    /\ UNCHANGED <<delegateConfig, timerActive, stopped, editor>>
    /\ UNCHANGED outsideDelegates

\* The user types into the line edit of the editor.
lineEdited(text) ==
    /\ \/ editor.kind = "QLineEdit" /\ delegate = SpinBoxDelegate
       \/ editor.kind = "QComboBox" /\ editable
    /\ editor' = [editor EXCEPT !.text = text]
    /\ lastCall' = "lineEdited"
    /\ UNCHANGED <<delegateConfig, timerActive, stopped, cellValue>>
    /\ UNCHANGED outsideDelegates

\* The user picks an entry of the combo.
activated(index) ==
    /\ editor.kind = "QComboBox"
    /\ index < Len(editor.items)
    /\ editor' = [editor EXCEPT !.index = index, !.text = editor.items[index + 1]]
    /\ lastCall' = "activated"
    /\ UNCHANGED <<delegateConfig, timerActive, stopped, cellValue>>
    /\ UNCHANGED outsideDelegates

\* The user steps the spin box to a value of its range.
valueChanged(value) ==
    /\ editor.kind = "QSpinBox"
    /\ value \in RangeMinimum(type) .. RangeMaximum(type)
    /\ editor' = [editor EXCEPT !.value = value]
    /\ lastCall' = "valueChanged"
    /\ UNCHANGED <<delegateConfig, timerActive, stopped, cellValue>>
    /\ UNCHANGED outsideDelegates

\* The owner of the diagnostics timer starts it again.
start ==
    /\ ~timerActive
    /\ timerActive' = TRUE
    /\ lastCall' = "start"
    /\ UNCHANGED <<delegateConfig, stopped, editor, cellValue>>
    /\ UNCHANGED outsideDelegates

EditorTexts == {<<>>, <<"-", "2">>, <<"+", "3">>, <<"4">>, <<"1", "a">>}

ComboValues == {<<>>, <<<<"a">>>>, <<<<"b">>, <<"a">>, <<"b">>>>}

ComboCells == {<<>>, <<"a">>, <<"A">>, <<"c">>}

IntegerTypes == {16, 32, 64}

InitDelegate ==
    /\ delegate \in Delegates
    /\ diag_timer \in (IF delegate \in TimedDelegates THEN BOOLEAN ELSE {FALSE})
    /\ timerActive \in BOOLEAN
    /\ stopped = FALSE
    /\ editor = NoEditor
    /\ lastCall = "new"
    /\ IF delegate = SpinBoxDelegate
       THEN /\ type \in IntegerTypes
            /\ cellValue \in {LongLongVariant(n) : n \in Ints}
       ELSE /\ type = 0
            /\ cellValue \in {StringVariant(str) : str \in ComboCells}
    /\ IF delegate \in ComboDelegates
       THEN /\ editable \in BOOLEAN
            /\ provided_values \in ComboValues
            /\ provided_lookups \in (IF delegate[1] = "rpfm_ui" THEN {<<>>} ELSE {<<>>, provided_values})
       ELSE editable = FALSE /\ provided_values = <<>> /\ provided_lookups = <<>>

IdleDelegate ==
    /\ delegate = <<"rpfm_ui", "QExtendedStyledItemDelegate">>
    /\ type = 0 /\ editable = FALSE /\ provided_values = <<>> /\ provided_lookups = <<>>
    /\ diag_timer = FALSE /\ timerActive = FALSE /\ stopped = FALSE
    /\ editor = NoEditor
    /\ cellValue = StringVariant(<<>>)
    /\ lastCall = "new"

IdleWidgets == IdleFlags /\ IdleDelegate

\* ------------------------------------------------------------ specifications
InitFrozen ==
    /\ viewModel = NoModel
    /\ frozenColumns = <<>>
    /\ baseLeftMargin = -1
    /\ viewportLeft = 0
    /\ frozenHidden = {}
    /\ frozenVHeader = TRUE
    /\ frozenGeom = [vheader |-> FALSE, width |-> 0]
    /\ colWidth = [c \in Columns |-> 1]
    /\ frozenColWidth = [c \in Columns |-> 1]
    /\ rowHeight = [r \in Rows |-> 1]
    /\ lastOp = <<"new", -1>>
    /\ prevToggle = -1
    /\ frozenBefore = {}
    /\ frozenBefore2 = {}
    /\ mainOrder = IdentityOrder
    /\ frozenOrder = IdentityOrder
    /\ focus = "main"
    /\ curMain = Invalid
    /\ curFrozen = Invalid
    /\ returned = Invalid
    /\ selMain = {}
    /\ selFrozen = {}
    /\ connN2F = 0
    /\ connF2N = 0
    /\ sigStack = <<>>
    /\ handlerCalls = 0
    /\ sbMain = [value |-> 0, max |-> 0]
    /\ sbFrozen = [value |-> 0, max |-> 0]
    /\ slotStack = <<>>
    /\ slotCalls = 0

\* Freezing columns, in either library.
IdleOutsideFrozen ==
    IdleFilter /\ IdleTree /\ InitSpin /\ InitClose /\ IdleWidgets

Init == impl \in Impls /\ tracking = TRUE /\ InitFrozen /\ IdleOutsideFrozen

Next ==
    \/ \E c \in Columns : toggleFreezer(c)
    \/ \E m \in Models : setModel(m)
    \/ \E c \in Columns, w \in Widths : updateSectionWidth(c, w)
    \/ \E r \in Rows, h \in Widths : updateSectionHeight(r, h)
    \/ resizeEvent
    \/ \E c \in Columns : toggleFreezerUi(c)
    \/ \E m \in Models : setDataModel(m)

Spec == Init /\ [][Next]_vars

\* The keyboard cursor between the two panes (qt_rpfm_extensions).
InitCursor == impl = "ext" /\ tracking = FALSE /\ InitFrozen /\ IdleOutsideFrozen

NextCursor ==
    \/ \E c \in Columns : toggleFreezer(c)
    \/ \E m \in Models : setModel(m)
    \/ \E from \in Columns, to \in Columns : sectionMoved(from, to)
    \/ \E a \in CursorActions : moveCursor(a)
    \/ \E v \in {"main", "frozen"}, i \in Cells : currentChanged(v, i)
    \/ focusInMain

SpecCursor == InitCursor /\ [][NextCursor]_vars

\* The selection of the two panes (qt_rpfm_extensions).
NextSelection ==
    \/ \E m \in Models : setModel(m)
    \/ \E v \in {"main", "frozen"}, i \in Cells, c \in SelectionCommands :
           selectEvent(v, i, c)
    \/ updateSelectionNormalToFrozen
    \/ updateSelectionFrozenToNormal

InitTracked == impl = "ext" /\ tracking = TRUE /\ InitFrozen /\ IdleOutsideFrozen

SpecSelection == InitTracked /\ [][NextSelection]_vars

\* The vertical scrollbars of the two panes (qt_rpfm_extensions).
NextScroll ==
    \/ \E s \in {"main", "frozen"}, v \in Values : scrollEvent(s, v)
    \/ \E s \in {"main", "frozen"}, v \in Values : rangeChanged(s, v)
    \/ setValue

SpecScroll == InitTracked /\ [][NextScroll]_vars

\* One verdict of the table filter, for every setting of its lists.
InitTableFilter ==
    /\ impl = "ext" /\ tracking = FALSE /\ InitFrozen
    /\ InitFilter /\ IdleTree /\ InitSpin /\ InitClose /\ IdleWidgets

NextFilter == filterAcceptsRow

SpecFilter == InitTableFilter /\ [][NextFilter]_vars

\* The proxies of both libraries, asked for verdicts and comparisons again
\* and again: a table proxy of either class over every row, or the tree proxy
\* over every tree.
InitProxies ==
    /\ impl = "ext" /\ tracking = FALSE /\ InitFrozen
    /\ InitSpin /\ InitClose /\ IdleWidgets
    /\ \/ (InitFilter \/ InitFilterUi) /\ IdleTree
       \/ UnusedFilter /\ proxy = "tree" /\ InitTree

NextProxies ==
    \/ filterAcceptsRow
    \/ filterAcceptsRowUi
    \/ \E left, right \in FilterColumns : lessThan(left, right)
    \/ \E left, right \in FilterColumns : lessThanUi(left, right)
    \/ proxy = "tree" /\ \E n \in Nodes : treeFilterAcceptsRow(n)

SpecProxies == InitProxies /\ [][NextProxies]_vars

\* One verdict of the tree filter, for every tree and expression.
InitTreeFilter ==
    /\ impl = "ui" /\ tracking = FALSE /\ InitFrozen
    /\ IdleFilter /\ InitTree /\ InitSpin /\ InitClose /\ IdleWidgets

NextTree == \E n \in Nodes : treeFilterAcceptsRow(n)

SpecTree == InitTreeFilter /\ [][NextTree]_vars

\* The 64-bit spin box, driven by its host and its user.
InitSpinBox ==
    /\ impl = "ext" /\ tracking = FALSE /\ InitFrozen
    /\ IdleFilter /\ IdleTree /\ InitSpin /\ InitClose /\ IdleWidgets

NextSpin ==
    \/ \E v \in SpinValues : set_value_q_spinbox_i64(v)
    \/ \E v \in SpinValues : setMinimum(v)
    \/ \E v \in SpinValues : setMaximum(v)
    \/ \E step \in SingleSteps : setSingleStep(step)
    \/ \E prefix \in Prefixes : setPrefix(prefix)
    \/ \E suffix \in Suffixes : setSuffix(suffix)
    \/ \E values \in InvalidValueLists : setInvalidValues(values)
    \/ \E w \in BOOLEAN : setWrapping(w)
    \/ \E r \in BOOLEAN : setReadOnly(r)
    \/ \E input \in UserTexts : textEdited(input)
    \/ focusOutEvent
    \/ \E steps \in Steps : stepBy(steps)

SpecSpin == InitSpinBox /\ [][NextSpin]_vars

\* Close events of the dialog and of the main window.
NextClose ==
    \/ \E w \in Widgets, answer \in BOOLEAN : closeEvent(w, answer)
    \/ \E w \in Widgets : show(w)

SpecClose == InitSpinBox /\ [][NextClose]_vars

\* One answer of PackedFileModel::flags, for every index, type and base flags.
InitPackedFileModel ==
    /\ impl = "ui" /\ tracking = FALSE /\ InitFrozen
    /\ IdleFilter /\ IdleTree /\ InitSpin /\ InitClose /\ InitFlags
    /\ IdleDelegate

NextFlags == flags

SpecFlags == InitPackedFileModel /\ [][NextFlags]_vars

\* The item delegates of both libraries: editors are created, filled, used
\* and read back, while the diagnostics timer is started again and again.
InitDelegates ==
    /\ impl = "ui" /\ tracking = FALSE /\ InitFrozen
    /\ IdleFilter /\ IdleTree /\ InitSpin /\ InitClose /\ IdleFlags
    /\ InitDelegate

NextDelegates ==
    \/ createEditor
    \/ setEditorData
    \/ setModelData
    \/ \E text \in EditorTexts : lineEdited(text)
    \/ \E index \in 0 .. 3 : activated(index)
    \/ \E value \in Ints : valueChanged(value)
    \/ start

SpecDelegates == InitDelegates /\ [][NextDelegates]_vars


\* ------------------------------------------------------------------- claims
SymDiff(A, B) == (A \ B) \cup (B \ A)

\* C2: toggleFreezer(c), in both implementations, flips column c in the set
\* of frozen columns and leaves every other column as it was; two consecutive
\* toggleFreezer(c) calls give back the set that was there before them.
C2_ToggleFlips ==
    lastOp[1] = "toggleFreezer" =>
        /\ ToSet(frozenColumns) = SymDiff(frozenBefore, {lastOp[2]})
        /\ prevToggle = lastOp[2] => ToSet(frozenColumns) = frozenBefore2

C2_Witness ==
    /\ impl = "ui"
    /\ lastOp[1] = "toggleFreezer"
    /\ prevToggle = lastOp[2]
    /\ lastOp[2] \in frozenBefore2
    /\ Cardinality(frozenBefore2) = 2
    /\ frozenColumns[1] # lastOp[2]

\* C3: qt_rpfm_extensions, with a model set: after toggleFreezer, setModel,
\* a resize event or a column-width change of the main header, a column of
\* the source model is visible in the frozen view exactly when it is frozen.
C3_FrozenVisible ==
    (/\ impl = "ext"
     /\ viewModel # NoModel
     /\ lastOp[1] \in {"toggleFreezer", "setModel", "resizeEvent",
                       "updateSectionWidth"})
    => \A c \in Columns : (c \notin frozenHidden) <=> Contains(frozenColumns, c)

C3_Witness ==
    /\ impl = "ext"
    /\ lastOp[1] = "updateSectionWidth"
    /\ frozenColumns # <<>>
    /\ frozenHidden # {}
    /\ frozenBefore2 # ToSet(frozenColumns)

\* C4: qt_rpfm_extensions, after setModel: once a selectionChanged of either
\* selection model has been handled completely, both selection models hold
\* the same cells, and the handlers call each other only a bounded number of
\* times per selection change.
C4_SelectionSync ==
    (impl = "ext" /\ viewModel # NoModel) =>
        /\ sigStack = <<>> => selMain = selFrozen
        /\ handlerCalls <= MaxConnections * (1 + NumRows * NumColumns)

C4_Witness ==
    /\ sigStack = <<>>
    /\ lastOp = <<"selectionChanged", "frozen">>
    /\ selMain = selFrozen
    /\ Cardinality(selMain) >= 2
    /\ handlerCalls >= 3

\* C5: qt_rpfm_extensions: with the same range on both vertical scrollbars,
\* a value change on either leaves both with the same value once no slot is
\* running, after at most two setValue slot calls.
C5_ScrollSync ==
    (lastOp[1] = "valueChanged" /\ sbMain.max = sbFrozen.max) =>
        /\ slotCalls <= 2
        /\ slotStack = <<>> => sbMain.value = sbFrozen.value

C5_Witness ==
    /\ lastOp = <<"valueChanged", "frozen">>
    /\ sbMain.max = sbFrozen.max
    /\ slotStack = <<>>
    /\ slotCalls = 2
    /\ sbMain.value = MaxValue

\* C6: moveCursor hands the focus over and keeps the row: (a) from the frozen
\* pane on MoveRight at the frozen column with the greatest visual index, to
\* the visually first column of the main view; (b) from the main view, with
\* a column frozen, on MoveLeft at visual index 0, to the frozen column with
\* the greatest visual index; in every other case the focus stays.
IsLastFrozen(column) ==
    /\ Contains(frozenColumns, column)
    /\ \A c \in ToSet(frozenColumns) :
           visualIndex(frozenOrder, c) <= visualIndex(frozenOrder, column)

C6_RightCase(a) ==
    focus = "frozen" /\ a = "MoveRight" /\ IsLastFrozen(ColumnOf(curFrozen))

C6_LeftCase(a) ==
    /\ focus = "main" /\ a = "MoveLeft" /\ frozenColumns # <<>>
    /\ visualIndex(mainOrder, ColumnOf(curMain)) = 0

C6_PaneCrossing ==
    [][\A a \in CursorActions : moveCursor(a) =>
          /\ C6_RightCase(a) =>
                 /\ focus' = "main"
                 /\ curMain' = <<RowOf(curFrozen), mainOrder[1]>>
          /\ C6_LeftCase(a) =>
                 /\ focus' = "frozen"
                 /\ RowOf(curFrozen') = RowOf(curMain)
                 /\ IsLastFrozen(ColumnOf(curFrozen'))
          /\ (~C6_RightCase(a) /\ ~C6_LeftCase(a)) => focus' = focus]_vars

\* C1: with at least one pattern set, the table filter accepts a row exactly
\* when some match group is valid, a group being valid only if every entry
\* assigned to it is satisfied by the row.
C1_GroupLogic ==
    (accepted # <<>> /\ patterns # <<>>) =>
        accepted[1] = (\E g \in ToSet(match_groups_per_column) :
                        \A i \in 1 .. Len(match_groups_per_column) :
                            match_groups_per_column[i] = g => MatchPasses(i - 1, sourceRow))

RECURSIVE AncestorsOf(_)
AncestorsOf(n) ==
    IF treeParent[n] = InvalidIndex THEN {}
    ELSE {treeParent[n]} \cup AncestorsOf(treeParent[n])

\* C7: a row the tree filter accepts has its parent accepted too, and so
\* every ancestor up to the root.
C7_ParentAccepted ==
    treeAccepted = <<TRUE>> => \A a \in AncestorsOf(treeRow) : TreeAcceptsRow(a)

\* An accepted row two levels down whose ancestors the base filter rejects.
C7_Witness ==
    /\ treeAccepted = <<TRUE>>
    /\ Cardinality(AncestorsOf(treeRow)) = 2
    /\ \A a \in AncestorsOf(treeRow) : ~BaseAccepts(a) /\ ~ExtraDataMatches(a)

\* C8: a row with a parent and no children that the base filter rejects is
\* accepted when the base filter accepts its parent's own text.
C8_ParentMatchRule ==
    (/\ treeAccepted # <<>>
     /\ treeParent[treeRow] # InvalidIndex
     /\ ChildrenOf(treeRow) = <<>>
     /\ ~BaseAccepts(treeRow)
     /\ BaseAccepts(treeParent[treeRow])) => treeAccepted = <<TRUE>>

\* A file accepted because of its folder's text alone.
C8_Witness ==
    /\ treeAccepted = <<TRUE>>
    /\ treeParent[treeRow] # InvalidIndex
    /\ ChildrenOf(treeRow) = <<>>
    /\ ~BaseAccepts(treeRow)
    /\ ~ExtraDataMatches(treeRow)
    /\ BaseAccepts(treeParent[treeRow])

\* C9: with wrapping on, a step up at the maximum gives the minimum, a step
\* down at the minimum gives the maximum, and a step past a bound from any
\* other value stops at that bound.
C9_WrapsLikeQSpinBox ==
    (spinLast.op = "stepBy" /\ wrapping /\ ~spinLast.overflow) =>
        LET value == spinLast.before
            delta == spinLast.delta
        IN  /\ (delta > 0 /\ value = m_maximum) => m_value = m_minimum
            /\ (delta < 0 /\ value = m_minimum) => m_value = m_maximum
            /\ (value # m_maximum /\ value + delta > m_maximum) => m_value = m_maximum
            /\ (value # m_minimum /\ value + delta < m_minimum) => m_value = m_minimum

\* C10: are_you_sure runs once per close event, the event ends accepted
\* exactly when it returned true, and a window whose close was refused is
\* still open.
C10_CloseEvent ==
    \A w \in Widgets :
        /\ sureCalls[w] = closeEvents[w]
        /\ closeEvents[w] > 0 =>
              /\ eventAccepted[w] = sureAnswer[w]
              /\ sureAnswer[w] = <<FALSE>> => isOpen[w]

\* Both windows were asked to close, one refused and one agreed.
C10_Witness ==
    /\ closeEvents["dialog"] > 0 /\ closeEvents["main"] > 0
    /\ sureAnswer["dialog"] = <<FALSE>> /\ isOpen["dialog"]
    /\ eventAccepted["dialog"] = <<FALSE>>
    /\ sureAnswer["main"] = <<TRUE>> /\ ~isOpen["main"]
    /\ eventAccepted["main"] = <<TRUE>>

\* C11: flags of a valid index are drag-enabled exactly for types 1 and 2 and
\* drop-enabled exactly for types 2 and 3, an invalid index is neither, and
\* every other flag of the base model comes back unchanged.
C11_DragDropFlags ==
    flagsResult # <<>> =>
        LET result == flagsResult[1]
        IN  /\ "ItemIsDragEnabled" \in result
                <=> (flagsIndex = "valid" /\ flagsItemType \in {1, 2})
            /\ "ItemIsDropEnabled" \in result
                <=> (flagsIndex = "valid" /\ flagsItemType \in {2, 3})
            /\ result \ {"ItemIsDragEnabled", "ItemIsDropEnabled"}
                = flagsBase \ {"ItemIsDragEnabled", "ItemIsDropEnabled"}

\* A PackFile whose base flags allowed dragging: drop only, the rest kept.
C11_Witness ==
    /\ flagsResult # <<>>
    /\ flagsIndex = "valid" /\ flagsItemType = 3
    /\ flagsBase = {"ItemIsDragEnabled", "ItemIsEnabled"}
    /\ flagsResult[1] = {"ItemIsDropEnabled", "ItemIsEnabled"}

\* C12: the table filter accepts every row when the pattern list is empty
\* and when every pattern of the list is the empty string.
C12_NoEffectivePattern ==
    (accepted # <<>> /\ \A i \in 1 .. Len(patterns) : patterns[i] = <<>>) =>
        accepted = <<TRUE>>

\* Two entries with empty patterns, one of them negated on a text cell.
C12_Witness ==
    /\ accepted = <<TRUE>>
    /\ Len(patterns) = 2
    /\ \A i \in 1 .. Len(patterns) : patterns[i] = <<>>
    /\ nott[2] = 1
    /\ sourceRow[columns[2]].check = "none"

\* C13: evaluating filterAcceptsRow or lessThan on a table proxy of either
\* library, or filterAcceptsRow on the tree proxy, changes no data of the
\* source model and none of the stored filter parameters, and an evaluation
\* repeated on the same row, or the same pair of indexes, returns the verdict
\* the one before returned.
CellData(cell) == <<cell.text, cell.text40, cell.modified, cell.check, cell.checkable>>

SourceData(row) == [c \in FilterColumns |-> CellData(row[c])]

DenotedInts(text) ==
    {n \in Ints : text \in {Number(n), <<"+">> \o Number(n)}
                  \/ (n = 0 /\ text = <<"-", "0">>)}

C14_WritesParsedOnly ==
    [][(delegate = SpinBoxDelegate /\ type = 64 /\ lastCall' = "setModelData") =>
           IF DenotedInts(editor.text) # {}
           THEN cellValue' = LongLongVariant(CHOOSE n \in DenotedInts(editor.text) : TRUE)
           ELSE cellValue' = cellValue
      ]_vars

\* setModelData has written the integer of a signed text over another one.
C14_Witness ==
    /\ delegate = SpinBoxDelegate /\ type = 64 /\ lastCall = "setModelData"
    /\ editor.text = <<"+", "3">>
    /\ cellValue = LongLongVariant(3)

\* setModelData has run on a text that is no integer and left the cellValue alone.
C14_WitnessRejected ==
    /\ delegate = SpinBoxDelegate /\ type = 64 /\ lastCall = "setModelData"
    /\ editor.text = <<"4">>
    /\ cellValue = LongLongVariant(-1)

C16_TimerStopped ==
    [][lastCall' = "createEditor" =>
           IF diag_timer THEN stopped' /\ ~timerActive'
           ELSE ~stopped' /\ timerActive' = timerActive
      ]_vars

\* The colour delegate, holding a timer, has returned its dialog with the
\* timer stopped.
C16_Witness ==
    /\ lastCall = "createEditor" /\ diag_timer /\ stopped /\ ~timerActive
    /\ delegate = <<"qt_rpfm_extensions", "QColourPickerItemDelegate">>
    /\ editor.kind = "QColorDialog"

\* C17: an entry of the table filter with show_edited_cells = 1 whose cell has
\* role 24 set to true is satisfied, whatever its pattern, negation, regex and
\* case settings are and whether or not the cell has a check state; an entry
\* without the flag, or on a cell whose role 24 is null or false, is satisfied
\* exactly when its checkbox, blank-cell or text test passes. The verdict is
\* the one the groups give with the entries satisfied in this way.
C17_EntrySatisfied(match, row) ==
    IF show_edited_cells[match + 1] = 1 /\ row[columns[match + 1]].modified = "true"
    THEN TRUE
    ELSE patterns[match + 1] = <<>> \/ EvaluatedNormally(match, row)

C17_ShowEditedBypass ==
    (accepted # <<>> /\ patterns # <<>>) =>
        accepted[1] = \E g \in DOMAIN MatchesPerGroup :
                          \A k \in 1 .. Len(MatchesPerGroup[g]) :
                              C17_EntrySatisfied(MatchesPerGroup[g][k], sourceRow)

\* A single entry asks for "1" on an unchecked checkbox cell that is modified
\* from vanilla, and the row is accepted.
C17_Witness ==
    /\ accepted = <<TRUE>>
    /\ Len(patterns) = 1 /\ patterns[1] = <<"1">> /\ show_edited_cells[1] = 1
    /\ sourceRow[columns[1]].check = "unchecked"
    /\ sourceRow[columns[1]].modified = "true"
    /\ ~EvaluatedNormally(0, sourceRow)

\* C18: rpfm_ui, once a model is set: after any sequence of setDataModel and
\* toggleFreezer, a column is visible in the frozen view exactly when it is in
\* frozenColumns.
C18_FrozenVisibleUi ==
    (impl = "ui" /\ viewModel # NoModel /\ lastOp[1] \in {"toggleFreezer", "setDataModel"})
    => \A c \in Columns : (c \notin frozenHidden) <=> Contains(frozenColumns, c)

\* What holds of the rpfm_ui view: with a model set, the column toggleFreezer
\* was just called on is visible in the frozen view exactly when it is frozen.
C18_ToggledColumn ==
    (impl = "ui" /\ viewModel # NoModel /\ lastOp[1] = "toggleFreezer")
    => ((lastOp[2] \notin frozenHidden) <=> Contains(frozenColumns, lastOp[2]))

\* setDataModel ran while a column was frozen.
C18_Refrozen ==
    /\ impl = "ui" /\ viewModel # NoModel /\ lastOp[1] = "setDataModel"
    /\ frozenColumns # <<>>
    /\ frozenHidden = Columns

====
